---- MODULE Spec2Model ----
(***************************************************************************)
(* Model of the vercel-action deployment pipeline: the argument tokenizer  *)
(* (Vercel.parseArgs), the metadata merger (Vercel.addMetadata), the       *)
(* deployment invoker (Vercel.deploy), the inspection parser               *)
(* (Vercel.inspect) and the orchestrator (run and its top-level wrapper).  *)
(*                                                                         *)
(* Text is modelled as a sequence of atoms.  An atom is either one special *)
(* character (a blank, a line feed, a single or double quote, an equals    *)
(* sign)                                                                   *)
(* or a word of ordinary characters (no whitespace, no quote, no equals).  *)
(* A token is a text, an argument vector is a sequence of tokens.          *)
(***************************************************************************)
EXTENDS Integers, Sequences, FiniteSets, TLC

VARIABLES
    vercelArgs,     \* Vercel.args: the "vercel-args" input
    scope,          \* Vercel.scope: the "scope" input (<<>> when not set)
    projectName,    \* Vercel.privProjectName (<<>> when not set)
    context,        \* github.context: eventName, forked, ref, sha, head
    pc,             \* position of run() / of the wrapper
    ref,            \* run's local ref
    sha,            \* run's local sha
    commitMessage,  \* run's local commitMessage
    providedArgs,   \* deploy's local providedArgs
    args,           \* deploy's local args, as handed to exec.exec
    deploymentUrl,  \* deploy's accumulated standard output
    inspectUrl,     \* deploy's inspect url taken from standard error
    error,          \* inspect's accumulated standard error
    deploymentName, \* run's local deploymentName (Null when absent)
    thrown,         \* the error propagating out of run (Null when none)
    failed,         \* core.setFailed's message (Null while not failed)
    trace,          \* the external effects of the run, in order
    comments,       \* the comment threads: of the commit, of the pull request
    chunks,         \* the chunks the subprocess has delivered, per stream
    found,          \* the id findPreviousComment returned (0 when none)
    githubToken,    \* the "github-token" input (<<>> when not supplied)
    git,            \* the git log subprocess of the first orchestrator
    commentBody     \* CommentContext.body of the reporter's call (Null: none)

vars == <<vercelArgs, scope, projectName, context, pc, ref, sha,
          commitMessage, providedArgs, args, deploymentUrl, inspectUrl,
          error, deploymentName, thrown, failed, trace, comments, chunks,
          found, githubToken, git,
          commentBody>>

-----------------------------------------------------------------------------
(* Bounds of the model *)

\* longest vercel-args text, in atoms
MaxLen == 5

\* most runs of the reporter on one commit or pull request
MaxRuns == 2

\* longest ref, in atoms
MaxRef == 3

\* longest standard-error text of the inspect subprocess, in atoms
MaxText == 5

\* most chunks one stream of one subprocess delivers
MaxChunks == 2

-----------------------------------------------------------------------------
(* Text *)

\* the absent value (null, undefined) of an optional text: a reserved atom
Null == <<"(null)">>

\* no error
NoError == "(none)"

SQ == "'"

DQ == "\""

LF == "\n"

\* \s of a JavaScript regular expression, over the atoms of the model
IsSpace(c) == c \in {" ", LF}

\* the characters a dot does not match (no s flag)
IsLineTerminator(c) == c = LF

Range(s) == {s[i] : i \in 1..Len(s)}

RECURSIVE StringsUpTo(_, _)
StringsUpTo(S, n) ==
    IF n = 0 THEN {<<>>}
    ELSE LET shorter == StringsUpTo(S, n - 1)
         IN  shorter \cup {Append(t, c) : t \in shorter, c \in S}

\* least j >= p with s[j] = c, 0 when there is none
RECURSIVE IndexFrom(_, _, _)
IndexFrom(s, c, p) ==
    IF p > Len(s) THEN 0
    ELSE IF s[p] = c THEN p
    ELSE IndexFrom(s, c, p + 1)

\* String.prototype.replace with a string pattern and the empty
\* replacement: the first occurrence only
ReplaceFirst(s, pat) ==
    LET i == IndexFrom(s, pat, 1)
    IN  IF i = 0 THEN s
        ELSE SubSeq(s, 1, i - 1) \o SubSeq(s, i + 1, Len(s))

-----------------------------------------------------------------------------
(* Vercel.parseArgs: s.matchAll of a three-way alternation: a run in       *)
(* single quotes, a run in double quotes, a run of non-whitespace          *)

\* a quoted alternative (quote q, any characters but q, quote q) tried at
\* p: the position of the closing quote, 0 when the alternative fails
QuotedEnd(s, p, q) ==
    IF s[p] = q THEN IndexFrom(s, q, p + 1) ELSE 0

\* the non-whitespace alternative tried at p: the last position of the
\* run, 0 when it fails
RECURSIVE BareEndStopAtQuote(_, _)
BareEndStopAtQuote(s, p) ==
    IF IsSpace(s[p]) \/ s[p] \in {SQ, DQ} THEN 0
    ELSE IF p = Len(s) \/ IsSpace(s[p + 1]) \/ s[p + 1] \in {SQ, DQ} THEN p
    ELSE BareEndStopAtQuote(s, p + 1)

\* the alternative without its repetition: one atom a match
BareEndOneAtom(s, p) == IF IsSpace(s[p]) THEN 0 ELSE p

RECURSIVE BareEnd(_, _)
BareEnd(s, p) ==
    IF IsSpace(s[p]) THEN 0
    ELSE IF p = Len(s) \/ IsSpace(s[p + 1]) THEN p
    ELSE BareEnd(s, p + 1)

\* one attempt of the regular expression at position p: the alternatives
\* in their order
MatchAt(s, p) ==
    IF QuotedEnd(s, p, SQ) # 0
    THEN [found |-> TRUE, alt |-> 1, start |-> p, end |-> QuotedEnd(s, p, SQ)]
    ELSE IF QuotedEnd(s, p, DQ) # 0
    THEN [found |-> TRUE, alt |-> 2, start |-> p, end |-> QuotedEnd(s, p, DQ)]
    ELSE IF BareEnd(s, p) # 0
    THEN [found |-> TRUE, alt |-> 3, start |-> p, end |-> BareEnd(s, p)]
    ELSE [found |-> FALSE, alt |-> 0, start |-> p, end |-> p]

\* the matches of matchAll from lastIndex p on, left to right
RECURSIVE MatchAllFrom(_, _)
MatchAllFrom(s, p) ==
    IF p > Len(s) THEN <<>>
    ELSE LET m == MatchAt(s, p)
         IN  IF m.found THEN <<m>> \o MatchAllFrom(s, m.end + 1)
             ELSE MatchAllFrom(s, p + 1)

matchAll(s) == MatchAllFrom(s, 1)

\* match[1] ?? match[2] ?? match[0], without the quote stripping
MatchTokenWhole(s, m) == SubSeq(s, m.start, m.end)

\* match[1] ?? match[2] ?? match[0]
MatchToken(s, m) ==
    IF m.alt \in {1, 2} THEN SubSeq(s, m.start + 1, m.end - 1)
    ELSE SubSeq(s, m.start, m.end)

parseArgs(s) ==
    LET ms == matchAll(s)
    IN  [i \in 1..Len(ms) |-> MatchToken(s, ms[i])]

-----------------------------------------------------------------------------
(* Vercel.addMetadata *)

\* arg.match(metadataRegex): the key at the start, the equals sign, and
\* at least one character that is not a line terminator
MatchesMetadata(arg, key) ==
    /\ Len(arg) >= 3
    /\ arg[1] = key
    /\ arg[2] = "="
    /\ ~IsLineTerminator(arg[3])

addMetadata(key, value, provided) ==
    IF \E i \in 1..Len(provided) : MatchesMetadata(provided[i], key)
    THEN <<>>
    ELSE << <<"-m">>, <<key, "=">> \o value >>

-----------------------------------------------------------------------------
(* Vercel.deploy: the argument vector *)

VercelToken == <<"vercel-token">>

Actor == <<"actor">>

Owner == <<"owner">>

Repo == <<"repo">>

\* the vector with the scope pair put before the metadata
DeployArgsScopeFirst(provided, ctx, r, commit, sc) ==
    provided
    \o << <<"-t">>, VercelToken >>
    \o (IF sc # <<>> THEN << <<"--scope">>, sc >> ELSE <<>>)
    \o addMetadata("githubCommitSha", ctx.sha, provided)
    \o addMetadata("githubCommitAuthorName", Actor, provided)
    \o addMetadata("githubCommitAuthorLogin", Actor, provided)
    \o addMetadata("githubDeployment", <<"1">>, provided)
    \o addMetadata("githubOrg", Owner, provided)
    \o addMetadata("githubRepo", Repo, provided)
    \o addMetadata("githubCommitOrg", Owner, provided)
    \o addMetadata("githubCommitRepo", Repo, provided)
    \o addMetadata("githubCommitMessage", <<DQ>> \o commit \o <<DQ>>, provided)
    \o addMetadata("githubCommitRef", ReplaceFirst(r, "refs/heads/"), provided)

DeployArgs(provided, ctx, r, commit, sc) ==
    provided
    \o << <<"-t">>, VercelToken >>
    \o addMetadata("githubCommitSha", ctx.sha, provided)
    \o addMetadata("githubCommitAuthorName", Actor, provided)
    \o addMetadata("githubCommitAuthorLogin", Actor, provided)
    \o addMetadata("githubDeployment", <<"1">>, provided)
    \o addMetadata("githubOrg", Owner, provided)
    \o addMetadata("githubRepo", Repo, provided)
    \o addMetadata("githubCommitOrg", Owner, provided)
    \o addMetadata("githubCommitRepo", Repo, provided)
    \o addMetadata("githubCommitMessage", <<DQ>> \o commit \o <<DQ>>, provided)
    \o addMetadata("githubCommitRef", ReplaceFirst(r, "refs/heads/"), provided)
    \o (IF sc # <<>> THEN << <<"--scope">>, sc >> ELSE <<>>)

-----------------------------------------------------------------------------
(* Vercel.inspect: the name row of the captured standard error             *)

\* the caret of a multi-line regular expression
IsLineStart(s, p) == p = 1 \/ IsLineTerminator(s[p - 1])

\* first position >= p that holds no whitespace, Len(s) + 1 when none
RECURSIVE SkipSpace(_, _)
SkipSpace(s, p) ==
    IF p > Len(s) \/ ~IsSpace(s[p]) THEN p ELSE SkipSpace(s, p + 1)

\* last position of the line that holds position t
RECURSIVE LineEnd(_, _)
LineEnd(s, t) ==
    IF t = Len(s) \/ IsLineTerminator(s[t + 1]) THEN t ELSE LineEnd(s, t + 1)

Max(S) == CHOOSE x \in S : \A y \in S : y <= x

Min(a, b) == IF a < b THEN a ELSE b

\* the regular expression tried at p: line start, whitespace, name,
\* whitespace, a group of one or more characters but line terminators, line
\* end.  Whitespace includes the line feed; the whitespace after name is
\* greedy and gives characters back until the group can start.
NameMatchAt(s, p) ==
    LET q == SkipSpace(s, p)
    IN  IF IsLineStart(s, p) /\ q > p /\ q <= Len(s) /\ s[q] = "name"
        THEN LET r == SkipSpace(s, q + 1)
                 starts == {t \in (q + 2)..Min(r, Len(s)) :
                               ~IsLineTerminator(s[t])}
             IN  IF r > q + 1 /\ starts # {}
                 THEN SubSeq(s, Max(starts), LineEnd(s, Max(starts)))
                 ELSE Null
        ELSE Null

\* error.match(...): the leftmost match; match?.length ? match[1] : null
RECURSIVE NameFrom(_, _)
NameFrom(s, p) ==
    IF p > Len(s) THEN Null
    ELSE IF NameMatchAt(s, p) # Null THEN NameMatchAt(s, p)
    ELSE NameFrom(s, p + 1)

extractName(s) == NameFrom(s, 1)

-----------------------------------------------------------------------------
(* Rest: the comment threads of the commit and of the pull request         *)

\* a text that is neither absent nor empty
Truthy(text) == text # Null /\ text # <<>>

\* Rest.buildCommentBody: the cells of the table rendered from the context
\* (name ?? N/A; Pending, N/A and N/A when inspectUrl is falsy, else Ready
\* and the links to deploymentUrl and inspectUrl), or the body of the
\* context in their place when the context has one
CommentCells(ctx) ==
    IF ctx.body # Null
    THEN [ body |-> ctx.body, commit |-> Null, name |-> Null,
           status |-> Null, deployment |-> Null, inspect |-> Null ]
    ELSE
    [ body |-> Null,
      commit |-> ctx.commitSha,
      name |-> IF ctx.name = Null THEN <<"N/A">> ELSE ctx.name,
      status |-> IF ~Truthy(ctx.inspectUrl) THEN <<"Pending">>
                 ELSE <<"Ready">>,
      deployment |-> IF ~Truthy(ctx.inspectUrl) THEN <<"N/A">>
                     ELSE <<"<a href=">> \o ctx.deploymentUrl,
      inspect |-> IF ~Truthy(ctx.inspectUrl) THEN <<"N/A">>
                  ELSE <<"<a href=">> \o ctx.inspectUrl ]

\* Rest.buildCommentPrefix: whether a comment body starts with the marker
\* is kept as the field mine of the body
CommentBody(ctx) == [mine |-> TRUE, ctx |-> ctx, cells |-> CommentCells(ctx)]

ForeignBody == [mine |-> FALSE, ctx |-> Null, cells |-> Null]

\* Rest.findPreviousComment: comments.find(body starts with the prefix)?.id;
\* ids are the positions in the thread, 0 when none is found
RECURSIVE FindFrom(_, _)
FindFrom(list, i) ==
    IF i > Len(list) THEN 0
    ELSE IF list[i].mine THEN i
    ELSE FindFrom(list, i + 1)

findPreviousComment(list) == FindFrom(list, 1)

-----------------------------------------------------------------------------
(* The run *)

Event(kind, what, arg) == [kind |-> kind, what |-> what, arg |-> arg]

ExitText(code) == IF code = 0 THEN <<"ok">> ELSE <<"failed">>

isPullRequestType(e) == e \in {"pull_request", "pull_request_target"}

\* the module's constants vercel and rest: core.getInput with required: true
\* throws when github-token is not supplied, before the wrapper's try is
\* entered, and the process ends on the uncaught error
Construct ==
    /\ pc = "load"
    /\ IF githubToken = <<>>
       THEN /\ pc' = "crashed"
            /\ trace' = Append(trace, Event("uncaught", "github-token", <<>>))
       ELSE /\ pc' = "start"
            /\ trace' = trace
    /\ UNCHANGED <<vercelArgs, scope, projectName, context, ref, sha,
                   commitMessage, providedArgs, args, deploymentUrl, inspectUrl,
                   error, deploymentName, thrown, failed, comments, chunks,
                   found, githubToken, git, commentBody>>

\* run, lines 11-19: a pull request of another owner is skipped
Eligibility ==
    /\ pc = "start"
    /\ IF isPullRequestType(context.eventName) /\ context.forked
       THEN /\ pc' = "done"
            /\ trace' = Append(trace, Event("info", "skipped", <<>>))
       ELSE /\ pc' = "setEnv"
            /\ trace' = trace
    /\ UNCHANGED <<vercelArgs, scope, projectName, context, ref, sha,
                   commitMessage, providedArgs, args, deploymentUrl, inspectUrl,
                   error, deploymentName, thrown, failed, comments, chunks,
                   found, githubToken, git, commentBody>>

\* run, lines 21-26: ref and sha of the context, setEnv, and the launch of
\* vercel telemetry disable
SetEnv ==
    /\ pc = "setEnv"
    /\ ref' = context.ref
    /\ sha' = context.sha
    /\ trace' = trace \o << Event("env", "setEnv", <<>>),
                            Event("exec", "telemetry", <<>>) >>
    /\ pc' = "telemetry"
    /\ UNCHANGED <<vercelArgs, scope, projectName, context, commitMessage,
                   providedArgs, args, deploymentUrl, inspectUrl, error,
                   deploymentName, thrown, failed, comments, chunks, found,
                   githubToken, git, commentBody>>

\* exec.exec rejects on a non-zero exit code
TelemetryExit(code) ==
    /\ pc = "telemetry"
    /\ trace' = Append(trace, Event("exit", "telemetry", ExitText(code)))
    /\ IF code = 0
       THEN pc' = "commit" /\ thrown' = thrown
       ELSE pc' = "threw" /\ thrown' = "telemetry failed"
    /\ UNCHANGED <<vercelArgs, scope, projectName, context, ref, sha,
                   commitMessage, providedArgs, args, deploymentUrl, inspectUrl,
                   error, deploymentName, failed, comments, chunks, found,
                   githubToken, git, commentBody>>

\* run, lines 28-43: the commit message of the push payload, or the head of
\* the pull request and the request of its commit
CommitMessage ==
    /\ pc = "commit"
    /\ IF context.eventName = "push"
       THEN /\ commitMessage' = context.message
            /\ UNCHANGED <<ref, sha, trace>>
            /\ pc' = "deploy"
       ELSE IF isPullRequestType(context.eventName)
       THEN /\ ref' = context.headRef
            /\ sha' = context.headSha
            /\ trace' = Append(trace, Event("api", "getCommit", context.headSha))
            /\ pc' = "getCommit"
            /\ UNCHANGED commitMessage
       ELSE /\ pc' = "deploy"
            /\ UNCHANGED <<ref, sha, trace, commitMessage>>
    /\ UNCHANGED <<vercelArgs, scope, projectName, context, providedArgs, args,
                   deploymentUrl, inspectUrl, error, deploymentName, thrown,
                   failed, comments, chunks, found, githubToken, git, commentBody>>

\* the answer of git.getCommit; the request is not guarded
GetCommitReturn(ok) ==
    /\ pc = "getCommit"
    /\ IF ok
       THEN /\ commitMessage' = context.message
            /\ pc' = "deploy"
            /\ thrown' = thrown
       ELSE /\ pc' = "threw"
            /\ thrown' = "getCommit failed"
            /\ UNCHANGED commitMessage
    /\ UNCHANGED <<vercelArgs, scope, projectName, context, ref, sha,
                   providedArgs, args, deploymentUrl, inspectUrl, error,
                   deploymentName, failed, trace, comments, chunks, found,
                   githubToken, git, commentBody>>

\* deploy launched and run going on without awaiting the subprocess
DeployLaunchNotAwaited ==
    /\ pc = "deploy"
    /\ providedArgs' = parseArgs(vercelArgs)
    /\ args' = DeployArgs(parseArgs(vercelArgs), context, ref, commitMessage,
                          scope)
    /\ deploymentUrl' = <<>>
    /\ inspectUrl' = <<>>
    /\ chunks' = [out |-> <<>>, err |-> <<>>]
    /\ trace' = Append(trace, Event("exec", "deploy", <<>>))
    /\ pc' = "resolveName"
    /\ UNCHANGED <<vercelArgs, scope, projectName, context, ref, sha,
                   commitMessage, error, deploymentName, thrown, failed,
                   comments, found, githubToken, git, commentBody>>

\* Vercel.deploy up to its await: the argument vector and the launch
DeployLaunch ==
    /\ pc = "deploy"
    /\ providedArgs' = parseArgs(vercelArgs)
    /\ args' = DeployArgs(parseArgs(vercelArgs), context, ref, commitMessage,
                          scope)
    /\ deploymentUrl' = <<>>
    /\ inspectUrl' = <<>>
    /\ chunks' = [out |-> <<>>, err |-> <<>>]
    /\ trace' = Append(trace, Event("exec", "deploy", <<>>))
    /\ pc' = "deploying"
    /\ UNCHANGED <<vercelArgs, scope, projectName, context, ref, sha,
                   commitMessage, error, deploymentName, thrown, failed,
                   comments, found, githubToken, git, commentBody>>

\* the stdout listener of deploy
DeployStdout(data) ==
    /\ pc = "deploying"
    /\ Len(chunks.out) < MaxChunks
    /\ deploymentUrl' = deploymentUrl \o data
    /\ chunks' = [chunks EXCEPT !.out = Append(@, data)]
    /\ UNCHANGED <<vercelArgs, scope, projectName, context, pc, ref, sha,
                   commitMessage, providedArgs, args, inspectUrl, error,
                   deploymentName, thrown, failed, trace, comments, found,
                   githubToken, git, commentBody>>

\* data.toString().startsWith with the marker and the host
StartsWithInspect(data) ==
    Len(data) >= 2 /\ data[1] = "Inspect: " /\ data[2] = "https://vercel.com"

\* the stderr listener of deploy
DeployStderr(data) ==
    /\ pc = "deploying"
    /\ Len(chunks.err) < MaxChunks
    /\ inspectUrl' = IF StartsWithInspect(data)
                     THEN ReplaceFirst(data, "Inspect: ")
                     ELSE inspectUrl
    /\ chunks' = [chunks EXCEPT !.err = Append(@, data)]
    /\ UNCHANGED <<vercelArgs, scope, projectName, context, pc, ref, sha,
                   commitMessage, providedArgs, args, deploymentUrl, error,
                   deploymentName, thrown, failed, trace, comments, found,
                   githubToken, git, commentBody>>

\* the end of the deploy subprocess with the exit code ignored
DeployExitIgnoreCode(code) ==
    /\ pc = "deploying"
    /\ pc' = "resolveName"
    /\ thrown' = thrown
    /\ trace' = trace
          \o << Event("exit", "deploy", ExitText(code)) >>
          \o (IF deploymentUrl = <<>> \/ inspectUrl = <<>>
              THEN << Event("warning", "url", <<>>) >>
              ELSE <<>>)
    /\ UNCHANGED <<vercelArgs, scope, projectName, context, ref, sha,
                   commitMessage, providedArgs, args, deploymentUrl, inspectUrl,
                   error, deploymentName, failed, comments, chunks, found,
                   githubToken, git, commentBody>>

\* the end of the deploy subprocess with an empty url made an error
DeployExitThrowOnEmpty(code) ==
    /\ pc = "deploying"
    /\ IF code = 0 /\ deploymentUrl # <<>>
       THEN /\ pc' = "resolveName"
            /\ thrown' = thrown
            /\ trace' = trace
                  \o << Event("exit", "deploy", ExitText(code)) >>
                  \o (IF inspectUrl = <<>>
                      THEN << Event("warning", "url", <<>>) >>
                      ELSE <<>>)
       ELSE /\ pc' = "threw"
            /\ thrown' = IF code = 0 THEN "no deployment url"
                         ELSE "deploy failed"
            /\ trace' = Append(trace, Event("exit", "deploy", ExitText(code)))
    /\ UNCHANGED <<vercelArgs, scope, projectName, context, ref, sha,
                   commitMessage, providedArgs, args, deploymentUrl, inspectUrl,
                   error, deploymentName, failed, comments, chunks, found,
                   githubToken, git, commentBody>>

\* the end of the deploy subprocess, and run, lines 46-50
DeployExit(code) ==
    /\ pc = "deploying"
    /\ IF code = 0
       THEN /\ pc' = "resolveName"
            /\ thrown' = thrown
            /\ trace' = trace
                  \o << Event("exit", "deploy", ExitText(code)) >>
                  \o (IF deploymentUrl = <<>> \/ inspectUrl = <<>>
                      THEN << Event("warning", "url", <<>>) >>
                      ELSE <<>>)
       ELSE /\ pc' = "threw"
            /\ thrown' = "deploy failed"
            /\ trace' = Append(trace, Event("exit", "deploy", ExitText(code)))
    /\ UNCHANGED <<vercelArgs, scope, projectName, context, ref, sha,
                   commitMessage, providedArgs, args, deploymentUrl, inspectUrl,
                   error, deploymentName, failed, comments, chunks, found,
                   githubToken, git, commentBody>>

\* the name resolution with inspect launched whatever the project name
ResolveNameAlwaysInspect ==
    /\ pc = "resolveName"
    /\ error' = <<>>
    /\ chunks' = [out |-> <<>>, err |-> <<>>]
    /\ trace' = Append(trace, Event("exec", "inspect", deploymentUrl))
    /\ pc' = "inspecting"
    /\ UNCHANGED <<vercelArgs, scope, projectName, context, ref, sha,
                   commitMessage, providedArgs, args, deploymentUrl, inspectUrl,
                   deploymentName, thrown, failed, comments, found, githubToken,
                   git, commentBody>>

\* run, lines 52-54: vercel.projectName || (await vercel.inspect(...))
ResolveName ==
    /\ pc = "resolveName"
    /\ IF projectName # <<>>
       THEN /\ deploymentName' = projectName
            /\ pc' = "report"
            /\ UNCHANGED <<error, trace, chunks>>
       ELSE /\ error' = <<>>
            /\ chunks' = [out |-> <<>>, err |-> <<>>]
            /\ trace' = Append(trace, Event("exec", "inspect", deploymentUrl))
            /\ pc' = "inspecting"
            /\ UNCHANGED deploymentName
    /\ UNCHANGED <<vercelArgs, scope, projectName, context, ref, sha,
                   commitMessage, providedArgs, args, deploymentUrl, inspectUrl,
                   thrown, failed, comments, found, githubToken, git, commentBody>>

\* the stderr listener of inspect
InspectStderr(data) ==
    /\ pc = "inspecting"
    /\ Len(chunks.err) < MaxChunks
    /\ error' = error \o data
    /\ chunks' = [chunks EXCEPT !.err = Append(@, data)]
    /\ UNCHANGED <<vercelArgs, scope, projectName, context, pc, ref, sha,
                   commitMessage, providedArgs, args, deploymentUrl, inspectUrl,
                   deploymentName, thrown, failed, trace, comments, found,
                   githubToken, git, commentBody>>

\* the end of the inspect subprocess and the extraction of the name
InspectExit(code) ==
    /\ pc = "inspecting"
    /\ IF code = 0
       THEN /\ deploymentName' = extractName(error)
            /\ pc' = "report"
            /\ thrown' = thrown
            /\ trace' = Append(trace, Event("exit", "inspect", ExitText(code)))
       ELSE /\ pc' = "threw"
            /\ thrown' = "inspect failed"
            /\ trace' = Append(trace, Event("exit", "inspect", ExitText(code)))
            /\ UNCHANGED deploymentName
    /\ UNCHANGED <<vercelArgs, scope, projectName, context, ref, sha,
                   commitMessage, providedArgs, args, deploymentUrl, inspectUrl,
                   error, failed, comments, chunks, found, githubToken, git,
                   commentBody>>

\* the thread createComment's branch works on: "issue", "commit" or "none"
CommentKind ==
    IF context.issue # 0 THEN "issue"
    ELSE IF context.eventName = "push" THEN "commit"
    ELSE "none"

\* the listing of the commit's comments whatever the event
ListedKindAlwaysCommit == "commit"

\* Rest.findCommentsForEvent: the thread that is listed
ListedKind ==
    IF context.eventName = "push" THEN "commit"
    ELSE IF isPullRequestType(context.eventName) THEN "issue"
    ELSE "none"

\* run, lines 55-76: the warning, and the comment when there is a name
Report ==
    /\ pc = "report"
    /\ IF ~Truthy(deploymentName)
       THEN /\ trace' = Append(trace, Event("warning", "name", <<>>))
            /\ pc' = "done"
       ELSE IF CommentKind = "none"
       THEN /\ trace' = trace
            /\ pc' = "done"
       ELSE IF ListedKind = "none"
       THEN /\ trace' = trace
            /\ pc' = "upsert"
       ELSE /\ trace' = Append(trace, Event("api", "list", <<ListedKind>>))
            /\ pc' = "listing"
    /\ found' = 0
    /\ UNCHANGED <<vercelArgs, scope, projectName, context, ref, sha,
                   commitMessage, providedArgs, args, deploymentUrl, inspectUrl,
                   error, deploymentName, thrown, failed, comments, chunks,
                   githubToken, git, commentBody>>

\* the answer of the listing; a failed listing is caught and gives no
\* comments
ListReturn(ok) ==
    /\ pc = "listing"
    /\ found' = IF ok THEN findPreviousComment(comments[ListedKind]) ELSE 0
    /\ pc' = "upsert"
    /\ UNCHANGED <<vercelArgs, scope, projectName, context, ref, sha,
                   commitMessage, providedArgs, args, deploymentUrl, inspectUrl,
                   error, deploymentName, thrown, failed, trace, comments,
                   chunks, githubToken, git, commentBody>>

TheCommentContext ==
    IF commentBody # Null
    THEN [body |-> commentBody, inspectUrl |-> Null, deploymentUrl |-> Null,
          commitSha |-> Null, name |-> Null]
    ELSE [body |-> Null, inspectUrl |-> inspectUrl,
          deploymentUrl |-> deploymentUrl,
          commitSha |-> sha, name |-> deploymentName]

\* the update or the creation of the comment is requested
Upsert ==
    /\ pc = "upsert"
    /\ trace' = Append(trace, Event("api", IF found # 0 THEN "update"
                                           ELSE "create", <<CommentKind>>))
    /\ pc' = "upserting"
    /\ UNCHANGED <<vercelArgs, scope, projectName, context, ref, sha,
                   commitMessage, providedArgs, args, deploymentUrl, inspectUrl,
                   error, deploymentName, thrown, failed, comments, chunks,
                   found, githubToken, git, commentBody>>

\* the answer of the update or creation; the request is not guarded
UpsertReturn(ok) ==
    /\ pc = "upserting"
    /\ IF ok
       THEN /\ comments' =
                 IF found # 0
                 THEN [comments EXCEPT ![CommentKind][found] =
                          CommentBody(TheCommentContext)]
                 ELSE [comments EXCEPT ![CommentKind] =
                          Append(@, CommentBody(TheCommentContext))]
            /\ pc' = "done"
            /\ thrown' = thrown
       ELSE /\ pc' = "threw"
            /\ thrown' = "comment failed"
            /\ UNCHANGED comments
    /\ UNCHANGED <<vercelArgs, scope, projectName, context, ref, sha,
                   commitMessage, providedArgs, args, deploymentUrl, inspectUrl,
                   error, deploymentName, failed, trace, chunks, found,
                   githubToken, git, commentBody>>

\* the top-level wrapper: catch (error) core.setFailed(error.message)
Catch ==
    /\ pc = "threw"
    /\ failed' = thrown
    /\ trace' = Append(trace, Event("setFailed", thrown, <<>>))
    /\ pc' = "exit"
    /\ UNCHANGED <<vercelArgs, scope, projectName, context, ref, sha,
                   commitMessage, providedArgs, args, deploymentUrl, inspectUrl,
                   error, deploymentName, thrown, comments, chunks, found,
                   githubToken, git, commentBody>>

-----------------------------------------------------------------------------
(* Inputs *)

ExitCodes == {0, 1}

\* what the deploy subprocess may write: the url on standard output, the
\* inspect line and build noise on standard error
DeployStdoutChunks == { <<"https://x.vercel.app">> }

DeployStderrChunks ==
    { <<"Inspect: ", "https://vercel.com", "/a">>,
      <<"Inspect: ", "https://vercel.com", "/b">>,
      <<"Building">> }

\* what the inspect subprocess may write on standard error
InspectStderrChunks ==
    { <<" ", "id", " ", "dpl_1", LF>>,
      <<" ", "name", " ", "demo", LF>>,
      <<"Fetching", LF>> }

PushContext ==
    [eventName |-> "push", forked |-> FALSE, optIn |-> FALSE, issue |-> 0,
     ref |-> <<"refs/heads/", "main">>, sha |-> <<"sha-push">>,
     headRef |-> <<>>, headSha |-> <<>>, message |-> <<"msg">>]

PullRequestContext(forked) ==
    [eventName |-> "pull_request", forked |-> forked, optIn |-> FALSE,
     issue |-> 7,
     ref |-> <<"refs/pull/7/merge">>, sha |-> <<"sha-merge">>,
     headRef |-> <<"feature">>, headSha |-> <<"sha-head">>,
     message |-> <<"msg">>]

DispatchContext ==
    [eventName |-> "workflow_dispatch", forked |-> FALSE, optIn |-> FALSE,
     issue |-> 0,
     ref |-> <<"refs/heads/", "main">>, sha |-> <<"sha-push">>,
     headRef |-> <<>>, headSha |-> <<>>, message |-> <<>>]

\* a pull request of another owner on which a collaborator has ticked the
\* Allow deployment box of the action's comment
OptInContext == [PullRequestContext(TRUE) EXCEPT !.optIn = TRUE]

\* a comment event on the pull request: the context has an issue number and
\* an event name that is neither push nor a pull request's
IssueCommentContext ==
    [eventName |-> "issue_comment", forked |-> FALSE, optIn |-> FALSE,
     issue |-> 7,
     ref |-> <<"refs/heads/", "main">>, sha |-> <<"sha-push">>,
     headRef |-> <<>>, headSha |-> <<>>, message |-> <<>>]

Contexts ==
    {PushContext, DispatchContext, OptInContext, IssueCommentContext} \cup
    {PullRequestContext(f) : f \in BOOLEAN}

OldBody ==
    CommentBody([body |-> Null, inspectUrl |-> <<>>, deploymentUrl |-> <<>>,
                 commitSha |-> <<"sha-old">>, name |-> <<"old">>])

Threads ==
    { [commit |-> <<>>, issue |-> <<>>],
      [commit |-> <<ForeignBody, OldBody>>, issue |-> <<ForeignBody, OldBody>>] }

SampleArgs ==
    { <<>>,
      <<"--prod", " ", "-m", " ", "githubCommitSha", "=", "x">> }

\* the atoms the vercel-args texts of SpecArgs are made of
ArgAlphabet == {"x", " ", LF, SQ, DQ, "=", "githubCommitSha"}

\* the example of the comment on parseArgs
DocExample ==
    <<"--env", " ", "foo", "=", "bar", " ",
      DQ, "foo", "=", "bar", " ", "baz", DQ, " ",
      SQ, "foo", "=", DQ, "bar", " ", "baz", DQ, SQ>>

\* the atoms the standard-error texts of SpecInspect are made of
InspectAlphabet == {" ", LF, "name", "x", "y"}

-----------------------------------------------------------------------------
(* Specifications *)

\* the run from its start
Init ==
    /\ vercelArgs \in SampleArgs
    /\ scope \in {<<>>, <<"team">>}
    /\ projectName \in {<<>>, <<"proj">>}
    /\ context \in Contexts
    /\ comments \in Threads
    /\ githubToken \in {<<>>, <<"ghs_token">>}
    /\ pc = "load"
    /\ ref = <<>>
    /\ sha = <<>>
    /\ commitMessage = <<>>
    /\ providedArgs = <<>>
    /\ args = <<>>
    /\ deploymentUrl = <<>>
    /\ inspectUrl = <<>>
    /\ error = <<>>
    /\ deploymentName = Null
    /\ thrown = NoError
    /\ failed = NoError
    /\ trace = <<>>
    /\ chunks = [out |-> <<>>, err |-> <<>>]
    /\ found = 0
    /\ git = [running |-> FALSE, out |-> <<>>]
    /\ commentBody = Null

Next ==
    \/ Construct
    \/ Eligibility
    \/ SetEnv
    \/ \E code \in ExitCodes : TelemetryExit(code)
    \/ CommitMessage
    \/ \E ok \in BOOLEAN : GetCommitReturn(ok)
    \/ DeployLaunch
    \/ \E data \in DeployStdoutChunks : DeployStdout(data)
    \/ \E data \in DeployStderrChunks : DeployStderr(data)
    \/ \E code \in ExitCodes : DeployExit(code)
    \/ ResolveName
    \/ \E data \in InspectStderrChunks : InspectStderr(data)
    \/ \E code \in ExitCodes : InspectExit(code)
    \/ Report
    \/ \E ok \in BOOLEAN : ListReturn(ok)
    \/ Upsert
    \/ \E ok \in BOOLEAN : UpsertReturn(ok)
    \/ Catch

Spec == Init /\ [][Next]_vars

\* the effects of a push run up to the call of deploy
TraceBeforeDeploy ==
    << Event("env", "setEnv", <<>>),
       Event("exec", "telemetry", <<>>),
       Event("exit", "telemetry", <<"ok">>) >>

\* Vercel.deploy called on every vercel-args text up to MaxLen atoms
InitArgs ==
    /\ vercelArgs \in StringsUpTo(ArgAlphabet, MaxLen) \cup {DocExample}
    /\ scope \in {<<>>, <<"team">>}
    /\ projectName = <<>>
    /\ context = PushContext
    /\ comments = [commit |-> <<>>, issue |-> <<>>]
    /\ githubToken = <<"ghs_token">>
    /\ pc = "deploy"
    /\ ref = PushContext.ref
    /\ sha = PushContext.sha
    /\ commitMessage = PushContext.message
    /\ providedArgs = <<>>
    /\ args = <<>>
    /\ deploymentUrl = <<>>
    /\ inspectUrl = <<>>
    /\ error = <<>>
    /\ deploymentName = Null
    /\ thrown = NoError
    /\ failed = NoError
    /\ trace = TraceBeforeDeploy
    /\ chunks = [out |-> <<>>, err |-> <<>>]
    /\ found = 0
    /\ git = [running |-> FALSE, out |-> <<>>]
    /\ commentBody = Null

NextArgs == DeployLaunch

SpecArgs == InitArgs /\ [][NextArgs]_vars

\* Vercel.inspect at the end of its subprocess, on every standard-error
\* text up to MaxText atoms
InitInspect ==
    /\ error \in StringsUpTo(InspectAlphabet, MaxText)
    /\ vercelArgs = <<>>
    /\ scope = <<>>
    /\ projectName = <<>>
    /\ context = PushContext
    /\ comments = [commit |-> <<>>, issue |-> <<>>]
    /\ githubToken = <<"ghs_token">>
    /\ pc = "inspecting"
    /\ ref = PushContext.ref
    /\ sha = PushContext.sha
    /\ commitMessage = PushContext.message
    /\ providedArgs = <<>>
    /\ args = DeployArgs(<<>>, PushContext, PushContext.ref,
                         PushContext.message, <<>>)
    /\ deploymentUrl = <<"https://x.vercel.app">>
    /\ inspectUrl = <<"https://vercel.com", "/a">>
    /\ deploymentName = Null
    /\ thrown = NoError
    /\ failed = NoError
    /\ trace = TraceBeforeDeploy
                \o << Event("exec", "deploy", <<>>),
                      Event("exit", "deploy", <<"ok">>),
                      Event("exec", "inspect", <<"https://x.vercel.app">>) >>
    /\ chunks = [out |-> <<>>, err |-> <<error>>]
    /\ found = 0
    /\ git = [running |-> FALSE, out |-> <<>>]
    /\ commentBody = Null

NextInspect == \E code \in ExitCodes : InspectExit(code)

SpecInspect == InitInspect /\ [][NextInspect]_vars

-----------------------------------------------------------------------------
(* Properties of the argument vector (SpecArgs)                            *)

Quotes == {SQ, DQ}

\* the well-known metadata keys, in the order the specification lists them
WellKnownKeys ==
    << "githubCommitSha", "githubCommitAuthorName", "githubCommitAuthorLogin",
       "githubDeployment", "githubOrg", "githubRepo", "githubCommitOrg",
       "githubCommitRepo", "githubCommitMessage", "githubCommitRef" >>

\* a token of the shape K=<one or more characters>
DefinesKey(tok, K) == Len(tok) >= 3 /\ tok[1] = K /\ tok[2] = "="

UserDefines(K) ==
    \E i \in 1..Len(providedArgs) : DefinesKey(providedArgs[i], K)

\* the computed pair of K stands in the vector, after the user's tokens and
\* the token pair
ComputedDefines(K) ==
    \E i \in (Len(providedArgs) + 3)..(Len(args) - 1) :
        args[i] = <<"-m">> /\ DefinesKey(args[i + 1], K)

\* C1: for every extra-arguments text and every well-known key K, the
\* vector handed to the tool never holds both a user-supplied definition
\* of K and the computed pair of K.
C1_AtMostOneDefinition ==
    pc = "deploying" =>
        \A n \in 1..Len(WellKnownKeys) :
            ~(UserDefines(WellKnownKeys[n]) /\ ComputedDefines(WellKnownKeys[n]))

SampleValues == { <<"v">>, <<"1">>, <<>> }

\* C2: mergeMetadata(K, v, provided) is the empty sequence for every v when
\* some token of provided is K= followed by one or more characters of any
\* kind, and is exactly the pair -m, K=v otherwise.
C2_MergerTwoOutcomes ==
    pc = "deploying" =>
        \A n \in 1..Len(WellKnownKeys) : \A v \in SampleValues :
            LET K == WellKnownKeys[n]
            IN  IF UserDefines(K)
                THEN addMetadata(K, v, providedArgs) = <<>>
                ELSE addMetadata(K, v, providedArgs)
                        = << <<"-m">>, <<K, "=">> \o v >>

C4_TokenizeTotal ==
    pc = "deploying" =>
        LET s == vercelArgs
            ms == matchAll(s)
            InQuoted(i) == \E k \in 1..Len(ms) :
                              /\ ms[k].alt \in {1, 2}
                              /\ ms[k].start <= i
                              /\ i <= ms[k].end
        IN  /\ DOMAIN providedArgs = 1..Len(providedArgs)
            /\ \A k \in 1..Len(providedArgs) :
                   /\ DOMAIN providedArgs[k] = 1..Len(providedArgs[k])
                   /\ Range(providedArgs[k]) \subseteq Range(s)
            /\ s = <<>> => providedArgs = <<>>
            /\ \A i \in 1..Len(s) :
                   ( /\ s[i] \in Quotes
                     /\ IndexFrom(s, s[i], i + 1) = 0
                     /\ ~InQuoted(i) )
                   => \E k \in 1..Len(ms) :
                          /\ ms[k].alt = 3
                          /\ ms[k].start <= i
                          /\ i <= ms[k].end
                          /\ providedArgs[k] = SubSeq(s, ms[k].start, ms[k].end)
            /\ \A q \in Quotes :
                   Cardinality({i \in 1..Len(s) : s[i] = q}) = 1
                   => \E k \in 1..Len(providedArgs) : q \in Range(providedArgs[k])

C4_Witness ==
    /\ pc = "deploying"
    /\ vercelArgs = <<"x", SQ, " ", "x">>
    /\ providedArgs = << <<"x", SQ>>, <<"x">> >>

\* C19, as stated: every token from outside a quoted run is bounded on each
\* side by whitespace or by the start or end of the text.
C19_BareTokenBetweenWhitespace ==
    pc = "deploying" =>
        LET s == vercelArgs
            ms == matchAll(s)
        IN  \A k \in 1..Len(ms) :
                ms[k].alt = 3 =>
                    /\ ms[k].start = 1 \/ IsSpace(s[ms[k].start - 1])
                    /\ ms[k].end = Len(s) \/ IsSpace(s[ms[k].end + 1])

\* C19, amended: every token from outside a quoted run is a run of
\* non-whitespace characters of the text that ends at whitespace or at the
\* end of the text, and begins at the start of the text, after whitespace,
\* or directly after the closing quote of a quoted token; two such tokens
\* are never adjacent.
C19_BareTokenMaximal ==
    pc = "deploying" =>
        LET s == vercelArgs
            ms == matchAll(s)
        IN  \A k \in 1..Len(ms) :
                ms[k].alt = 3 =>
                    /\ providedArgs[k] = SubSeq(s, ms[k].start, ms[k].end)
                    /\ \A i \in (ms[k].start)..(ms[k].end) : ~IsSpace(s[i])
                    /\ ms[k].end = Len(s) \/ IsSpace(s[ms[k].end + 1])
                    /\ \/ ms[k].start = 1
                       \/ IsSpace(s[ms[k].start - 1])
                       \/ /\ k > 1
                          /\ ms[k - 1].alt \in {1, 2}
                          /\ ms[k - 1].end = ms[k].start - 1
                    /\ k > 1 => ~(ms[k - 1].alt = 3
                                  /\ ms[k - 1].end = ms[k].start - 1)

C19_Witness ==
    /\ pc = "deploying"
    /\ vercelArgs = <<SQ, SQ, "x", " ", "x">>
    /\ providedArgs = << <<>>, <<"x">>, <<"x">> >>

NotSuppressed(K) == addMetadata(K, <<>>, providedArgs) # <<>>

-----------------------------------------------------------------------------
(* Properties of the run (Spec)                                            *)

Positions(kind, what) ==
    {i \in 1..Len(trace) : trace[i].kind = kind /\ trace[i].what = what}

Happened(kind, what) == Positions(kind, what) # {}

Exited(what, how) ==
    \E i \in Positions("exit", what) : trace[i].arg = <<how>>

CommentRequested == Happened("api", "create") \/ Happened("api", "update")

\* C6: a deploy or inspect subprocess that exits non-zero is fatal: the
\* subprocess is not launched again, nothing comes after its exit but the
\* wrapper's setFailed (no inspect, no comment request), and the wrapper
\* sets the failed state with the message of the error.
C6_SubprocessFailureIsFatal ==
    \A what \in {"deploy", "inspect"} :
        \A i \in Positions("exit", what) :
            trace[i].arg = <<"failed">> =>
                /\ Cardinality(Positions("exec", what)) = 1
                /\ \A j \in (i + 1)..Len(trace) : trace[j].kind = "setFailed"
                /\ ~CommentRequested
                /\ what = "deploy" => ~Happened("exec", "inspect")
                /\ pc \in {"threw", "exit"}
                /\ pc = "threw" => /\ ENABLED Catch
                                   /\ failed = NoError
                /\ pc = "exit" =>
                       /\ failed = (IF what = "deploy" THEN "deploy failed"
                                    ELSE "inspect failed")
                       /\ trace[Len(trace)] = Event("setFailed", failed, <<>>)

C6_Witness ==
    /\ pc = "exit"
    /\ failed = "inspect failed"
    /\ Exited("deploy", "ok")
    /\ Exited("inspect", "failed")

\* C7: a deploy subprocess that exits zero with an empty deployment url
\* does not fail the run: the warning is logged right after the exit, and
\* name resolution and reporting go on with the empty url.
C7_EmptyUrlIsNotFatal ==
    (Exited("deploy", "ok") /\ deploymentUrl = <<>>) =>
        /\ \A i \in Positions("exit", "deploy") :
               /\ i < Len(trace)
               /\ trace[i + 1] = Event("warning", "url", <<>>)
        /\ thrown \in {NoError, "inspect failed", "comment failed"}
        /\ pc = "resolveName" => ENABLED ResolveName
        /\ pc = "report" => ENABLED Report
        /\ \A i \in Positions("exec", "inspect") : trace[i].arg = <<>>
        /\ (pc = "done" /\ CommentRequested) =>
               \E k \in {"commit", "issue"} : \E c \in 1..Len(comments[k]) :
                   /\ comments[k][c].mine
                   /\ comments[k][c].ctx.deploymentUrl = <<>>
                   /\ comments[k][c].ctx.commitSha = sha

C7_Witness ==
    /\ pc = "done"
    /\ Exited("deploy", "ok")
    /\ deploymentUrl = <<>>
    /\ Happened("exec", "inspect")
    /\ Happened("api", "create")
    /\ failed = NoError

\* C8: when name extraction finds no name, the comment is still upserted
\* (with the placeholder for the name) and the run ends successfully.
\* run writes the comment only under if (deploymentName), so the run ends
\* with no comment requested.
C8_CommentUpsertedWithoutName ==
    ( /\ pc = "done"
      /\ Exited("inspect", "ok")
      /\ ~Truthy(deploymentName)
      /\ context.eventName \in {"push", "pull_request"} )
    => CommentRequested

\* the run has gone through its name resolution step
NameResolved == Exited("deploy", "ok") /\ pc # "resolveName"

\* C9: the inspect subprocess is launched exactly when no project name is
\* configured: never with a project name, whose value is then the name,
\* and always (once) without one when the run resolves the name.
C9_InspectOnlyWithoutProjectName ==
    /\ Happened("exec", "inspect") => projectName = <<>>
    /\ Cardinality(Positions("exec", "inspect")) <= 1
    /\ NameResolved =>
           /\ Happened("exec", "inspect") <=> projectName = <<>>
           /\ projectName # <<>> => deploymentName = projectName

C9_Witness ==
    /\ pc = "done"
    /\ projectName # <<>>
    /\ deploymentName = projectName
    /\ ~Happened("exec", "inspect")
    /\ Happened("api", "create")

-----------------------------------------------------------------------------
(* Properties of the inspection parser (SpecInspect)                       *)

\* the lines of a text
RECURSIVE Lines(_)
Lines(s) ==
    LET i == IndexFrom(s, LF, 1)
    IN  IF i = 0 THEN <<s>>
        ELSE <<SubSeq(s, 1, i - 1)>> \o Lines(SubSeq(s, i + 1, Len(s)))

\* the value of the first line that is a name row
RECURSIVE FirstNameRow(_)
FirstNameRow(lines) ==
    IF lines = <<>> THEN Null
    ELSE IF extractName(Head(lines)) # Null THEN extractName(Head(lines))
    ELSE FirstNameRow(Tail(lines))

\* C10: inspect returns the value of the first line of the captured text
\* that consists of whitespace, the word name, whitespace and a value, and
\* null when the text has no such line.
C10_FirstNameRow ==
    (pc = "report" /\ Exited("inspect", "ok")) =>
        deploymentName = FirstNameRow(Lines(error))

-----------------------------------------------------------------------------
(* Order of the external steps (Spec)                                      *)

\* the subprocesses of what that are launched and not ended after the
\* first n effects
Running(what, n) ==
    Cardinality({i \in Positions("exec", what) : i <= n})
        - Cardinality({i \in Positions("exit", what) : i <= n})

CommentRequests ==
    Positions("api", "list") \cup Positions("api", "create")
        \cup Positions("api", "update")

\* C11: the external steps of a run happen in the order environment setup,
\* deploy, inspect, report: deploy is launched after the environment setup,
\* inspect only after the deploy subprocess has ended, a comment is
\* requested only after deploy and inspect (when launched) have ended, and
\* never are two deploy or inspect subprocesses running at once.
C11_StepsInOrder ==
    /\ \A i \in Positions("exec", "deploy") :
           \E j \in Positions("env", "setEnv") : j < i
    /\ \A i \in Positions("exec", "inspect") :
           \E j \in Positions("exit", "deploy") : j < i
    /\ \A i \in CommentRequests :
           /\ \E j \in Positions("exit", "deploy") : j < i
           /\ \A k \in Positions("exec", "inspect") :
                  \E j \in Positions("exit", "inspect") : k < j /\ j < i
           /\ \A k \in Positions("exec", "deploy") : k < i
    /\ \A n \in 0..Len(trace) :
           /\ Running("deploy", n) + Running("inspect", n) \in {0, 1}
    /\ pc = "deploying" <=> Running("deploy", Len(trace)) = 1
    /\ pc = "inspecting" <=> Running("inspect", Len(trace)) = 1

C11_Witness ==
    /\ pc = "done"
    /\ Happened("env", "setEnv")
    /\ Exited("deploy", "ok")
    /\ Exited("inspect", "ok")
    /\ Happened("api", "list")
    /\ Happened("api", "update")

-----------------------------------------------------------------------------
(* Eligibility (Spec)                                                      *)

CrossFork == isPullRequestType(context.eventName) /\ context.forked

\* C12: for a pull request whose base repository has another owner and that
\* has no opt-in comment, no deploy subprocess is launched, the run ends
\* successfully (the failed state is not set), and an explanatory comment
\* is posted.
\* run returns after core.info without any comment request.
C12_ForkRejection ==
    (CrossFork /\ ~context.optIn /\ pc \in {"done", "exit"}) =>
        /\ ~Happened("exec", "deploy")
        /\ pc = "done"
        /\ failed = NoError
        /\ CommentRequested

\* C13: for a cross-fork pull request with the collaborator's opt-in
\* comment the run proceeds as for an eligible event: a run that has ended
\* has gone through the environment setup and the deploy.
\* run looks at the owners only and skips the opted-in pull request too.
C13_OptInProceeds ==
    (CrossFork /\ context.optIn /\ pc \in {"done", "exit"}) =>
        /\ Happened("env", "setEnv")
        /\ Happened("exec", "deploy")

-----------------------------------------------------------------------------
(* The reporter run again on the same commit or pull request (SpecReport)  *)

UpsertRequests == Positions("api", "create") \cup Positions("api", "update")

\* a later run of the action that reaches the reporter with the same
\* comment context, on the threads the earlier run has left
Rerun ==
    /\ pc = "done"
    /\ Cardinality(UpsertRequests) \in 1..(MaxRuns - 1)
    /\ pc' = "report"
    /\ UNCHANGED <<vercelArgs, scope, projectName, context, ref, sha,
                   commitMessage, providedArgs, args, deploymentUrl, inspectUrl,
                   error, deploymentName, thrown, failed, trace, comments,
                   chunks, found, githubToken, git, commentBody>>

InitReport ==
    /\ vercelArgs = <<>>
    /\ scope = <<>>
    /\ projectName = <<>>
    /\ context \in {PushContext, PullRequestContext(FALSE), IssueCommentContext}
    /\ comments \in Threads
    /\ githubToken = <<"ghs_token">>
    /\ pc = "report"
    /\ ref = context.ref
    /\ sha = context.sha
    /\ commitMessage = context.message
    /\ providedArgs = <<>>
    /\ args = <<>>
    /\ deploymentUrl \in {<<>>, <<"https://x.vercel.app">>}
    /\ inspectUrl \in {<<>>, <<"https://vercel.com", "/a">>}
    /\ error = <<>>
    /\ deploymentName \in {<<"demo">>, <<"proj">>}
    /\ thrown = NoError
    /\ failed = NoError
    /\ trace = <<>>
    /\ chunks = [out |-> <<>>, err |-> <<>>]
    /\ found = 0
    /\ git = [running |-> FALSE, out |-> <<>>]
    /\ commentBody = Null

NextReport ==
    \/ Report
    \/ \E ok \in BOOLEAN : ListReturn(ok)
    \/ Upsert
    \/ \E ok \in BOOLEAN : UpsertReturn(ok)
    \/ Rerun
    \/ Catch

SpecReport == InitReport /\ [][NextReport]_vars

\* the comments of a thread that carry the action's prefix marker
Marked(thread) == {c \in 1..Len(thread) : thread[c].mine}

\* C14: after the reporter has run twice with the same comment context on
\* the same commit or pull request, the thread holds exactly one comment
\* with the action's prefix marker, with the body rendered from the
\* context: the second run has updated the comment of the first.
C14_UpsertIdempotent ==
    (pc = "done" /\ Cardinality(UpsertRequests) >= 2) =>
        /\ Cardinality(Marked(comments[CommentKind])) = 1
        /\ \A c \in Marked(comments[CommentKind]) :
               comments[CommentKind][c] = CommentBody(TheCommentContext)
        /\ trace[Len(trace)].what = "update"

-----------------------------------------------------------------------------
(* Errors of the platform's API (Spec)                                     *)

\* C15: an error of the platform's API while comments are listed, created
\* or updated is caught where it arises and never fails the run: once the
\* reporter has made a request, no error propagates out of run, and the
\* run ends in its success state.
\* The listing is guarded by a catch; the create and update requests are
\* awaited unguarded, so their rejection reaches the wrapper.
C15_CommentApiErrorNotFatal ==
    CommentRequests # {} =>
        /\ thrown = NoError
        /\ failed = NoError
        /\ pc \notin {"threw", "exit"}

\* C16: when a deploy or inspect subprocess fails, the deployment status of
\* the run is marked failure before the run terminates.
\* run and its wrapper never call Rest.createDeployment or
\* Rest.updateDeployment: no deployment status is requested at all.
C16_FailureMarksDeploymentStatus ==
    (pc = "exit" /\ (Exited("deploy", "failed") \/ Exited("inspect", "failed")))
        => \E i \in Positions("api", "createDeploymentStatus") :
               trace[i].arg = <<"failure">>

-----------------------------------------------------------------------------
(* Outputs and inputs of the step (Spec)                                   *)

\* the value of a step output at the end of the run: the value last set,
\* the empty text when the output was never set
Output(name) ==
    IF Positions("output", name) = {} THEN <<>>
    ELSE trace[CHOOSE i \in Positions("output", name) :
                   \A j \in Positions("output", name) : j <= i].arg

\* C17: a run that completes the deploy step produces the output
\* preview-url equal to the deployment url (empty when there is none), and
\* the output preview-name equal to the resolved name exactly when a name
\* was resolved.
\* run of the Vercel and Rest classes sets no output.
C17_Outputs ==
    (pc = "done" /\ Exited("deploy", "ok")) =>
        /\ Output("preview-url") = deploymentUrl
        /\ Truthy(deploymentName) <=> Happened("output", "preview-name")
        /\ Truthy(deploymentName) => Output("preview-name") = deploymentName

\* C18: the platform access token is optional: without it the run still
\* deploys, and makes no request to the platform's API.
\* The Rest object is constructed with the token required, so without it
\* the process ends before run is called.
C18_TokenOptional ==
    (githubToken = <<>> /\ pc \in {"done", "exit", "crashed"}) =>
        /\ Happened("exec", "deploy")
        /\ \A i \in 1..Len(trace) : trace[i].kind # "api"

-----------------------------------------------------------------------------
(* The ref handed to the tool (SpecRef)                                    *)

\* the atoms the refs of SpecRef are made of: the branch prefix is one atom
RefAlphabet == {"refs/heads/", "main", "x/"}

\* Vercel.deploy called on every ref up to MaxRef atoms
InitRef ==
    /\ vercelArgs \in SampleArgs
            \cup { <<"-m", " ", "githubCommitRef", "=", "mine">> }
    /\ scope \in {<<>>, <<"team">>}
    /\ projectName = <<>>
    /\ context = PushContext
    /\ comments = [commit |-> <<>>, issue |-> <<>>]
    /\ githubToken = <<"ghs_token">>
    /\ pc = "deploy"
    /\ ref \in StringsUpTo(RefAlphabet, MaxRef)
    /\ sha = PushContext.sha
    /\ commitMessage = PushContext.message
    /\ providedArgs = <<>>
    /\ args = <<>>
    /\ deploymentUrl = <<>>
    /\ inspectUrl = <<>>
    /\ error = <<>>
    /\ deploymentName = Null
    /\ thrown = NoError
    /\ failed = NoError
    /\ trace = TraceBeforeDeploy
    /\ chunks = [out |-> <<>>, err |-> <<>>]
    /\ found = 0
    /\ git = [running |-> FALSE, out |-> <<>>]
    /\ commentBody = Null

NextRef == DeployLaunch

SpecRef == InitRef /\ [][NextRef]_vars

\* the ref with a leading branch prefix removed
WithoutLeadingPrefix(r) ==
    IF Len(r) >= 1 /\ r[1] = "refs/heads/" THEN Tail(r) ELSE r

\* C20: the value of the computed githubCommitRef metadata is the ref
\* without its leading refs/heads/ prefix: the rest of the ref when the ref
\* starts with the prefix, the ref unchanged when it does not.
\* String.replace removes the first occurrence of the prefix wherever it
\* stands in the ref.
C20_RefPrefixStripped ==
    (pc = "deploying" /\ NotSuppressed("githubCommitRef")) =>
        \E i \in 1..(Len(args) - 1) :
            /\ args[i] = <<"-m">>
            /\ args[i + 1] = <<"githubCommitRef", "=">> \o WithoutLeadingPrefix(ref)

-----------------------------------------------------------------------------
(* The inspect url of deploy (Spec)                                        *)

\* the first of the lines that starts with the marker and the host, with
\* the marker stripped; the empty text when there is none
RECURSIVE FirstInspectLine(_)
FirstInspectLine(lines) ==
    IF lines = <<>> THEN <<>>
    ELSE IF StartsWithInspect(Head(lines)) THEN Tail(Head(lines))
    ELSE FirstInspectLine(Tail(lines))

\* C21: the inspect url of deploy is taken from the first standard-error
\* line that starts with the marker and the host, with the marker stripped;
\* later matching lines do not change it, and it is empty when no line
\* matches.  Each chunk the listener receives is taken as one line.
\* The listener assigns on every matching chunk, so the last one stays.
C21_FirstInspectLine ==
    pc \in {"deploying", "resolveName"} =>
        inspectUrl = FirstInspectLine(chunks.err)

-----------------------------------------------------------------------------
(* The first orchestrator: the commit message read with git log            *)
(* (SpecGitLog)                                                            *)

\* what git log may write on standard output
GitLogChunks == { <<"fix">>, <<"bug">> }

\* the orchestrator is suspended at an await: only then do the listeners
\* and the completion of a subprocess run
Awaiting == pc \in {"getCommit", "deploying"}

\* run of the first orchestrator: exec.exec of git log is called and not
\* awaited, and commit is trimmed at once
GitLogLaunch ==
    /\ pc = "gitLog"
    /\ git' = [running |-> TRUE, out |-> <<>>]
    /\ commitMessage' = <<>>
    /\ trace' = Append(trace, Event("exec", "git", <<>>))
    /\ pc' = "headCommit"
    /\ UNCHANGED <<vercelArgs, scope, projectName, context, ref, sha,
                   providedArgs, args, deploymentUrl, inspectUrl, error,
                   deploymentName, thrown, failed, comments, chunks, found,
                   githubToken, commentBody>>

\* the stdout listener of git log: commit += data
GitLogStdout(data) ==
    /\ git.running
    /\ Awaiting
    /\ Len(git.out) < MaxChunks
    /\ git' = [git EXCEPT !.out = Append(@, data)]
    /\ commitMessage' = commitMessage \o data
    /\ UNCHANGED <<vercelArgs, scope, projectName, context, pc, ref, sha,
                   providedArgs, args, deploymentUrl, inspectUrl, error,
                   deploymentName, thrown, failed, trace, comments, chunks,
                   found, githubToken, commentBody>>

\* the end of git log; nothing awaits or catches its promise, so a
\* rejection is unhandled and, with the runtime's default, ends the process
GitLogExit(code, fatal) ==
    /\ git.running
    /\ Awaiting
    /\ git' = [git EXCEPT !.running = FALSE]
    /\ trace' = Append(trace, Event("exit", "git", ExitText(code)))
    /\ pc' = IF code # 0 /\ fatal THEN "crashed" ELSE pc
    /\ UNCHANGED <<vercelArgs, scope, projectName, context, ref, sha,
                   commitMessage, providedArgs, args, deploymentUrl, inspectUrl,
                   error, deploymentName, thrown, failed, comments, chunks,
                   found, githubToken, commentBody>>

\* run of the first orchestrator: the head of the pull request and, with
\* a token, the request of its commit
HeadCommit ==
    /\ pc = "headCommit"
    /\ IF isPullRequestType(context.eventName)
       THEN /\ ref' = context.headRef
            /\ sha' = context.headSha
            /\ IF githubToken # <<>>
               THEN /\ trace' = Append(trace, Event("api", "getCommit",
                                                    context.headSha))
                    /\ pc' = "getCommit"
               ELSE /\ pc' = "deploy"
                    /\ trace' = trace
       ELSE /\ pc' = "deploy"
            /\ UNCHANGED <<ref, sha, trace>>
    /\ UNCHANGED <<vercelArgs, scope, projectName, context, commitMessage,
                   providedArgs, args, deploymentUrl, inspectUrl, error,
                   deploymentName, thrown, failed, comments, chunks, found,
                   githubToken, git, commentBody>>

InitGitLog ==
    /\ vercelArgs \in SampleArgs
    /\ scope \in {<<>>, <<"team">>}
    /\ projectName = <<>>
    /\ context \in {PushContext, PullRequestContext(FALSE), DispatchContext}
    /\ comments = [commit |-> <<>>, issue |-> <<>>]
    /\ githubToken \in {<<>>, <<"ghs_token">>}
    /\ pc = "gitLog"
    /\ ref = context.ref
    /\ sha = context.sha
    /\ commitMessage = <<>>
    /\ providedArgs = <<>>
    /\ args = <<>>
    /\ deploymentUrl = <<>>
    /\ inspectUrl = <<>>
    /\ error = <<>>
    /\ deploymentName = Null
    /\ thrown = NoError
    /\ failed = NoError
    /\ trace = << Event("env", "setEnv", <<>>) >>
    /\ chunks = [out |-> <<>>, err |-> <<>>]
    /\ found = 0
    /\ git = [running |-> FALSE, out |-> <<>>]
    /\ commentBody = Null

NextGitLog ==
    \/ GitLogLaunch
    \/ \E data \in GitLogChunks : GitLogStdout(data)
    \/ \E code \in ExitCodes : \E fatal \in BOOLEAN : GitLogExit(code, fatal)
    \/ HeadCommit
    \/ \E ok \in BOOLEAN : GetCommitReturn(ok)
    \/ DeployLaunch
    \/ Catch

SpecGitLog == InitGitLog /\ [][NextGitLog]_vars

\* C22: the orchestrator moves to the next step only after the subprocess
\* it has launched has exited, and no later step consumes what a running
\* subprocess has accumulated: when deploy is launched, git log has exited
\* and the commit message of the metadata is its whole output unless the
\* commit of the pull request has replaced it.
\* git log is not awaited: deploy starts while it runs.
C22_SubprocessAwaited ==
    Happened("exec", "deploy") =>
        /\ \A i \in Positions("exec", "deploy") :
               \E j \in Positions("exit", "git") : j < i
        /\ ~Happened("api", "getCommit") =>
               \E i \in 1..Len(args) :
                   args[i] = <<"githubCommitMessage", "=", DQ>>
                                 \o commitMessage \o <<DQ>>

-----------------------------------------------------------------------------
(* The kind of the comment (Spec)                                          *)

\* the thread a push or pull-request event is about
ThreadOfEvent ==
    IF context.eventName = "push" THEN "commit" ELSE "issue"

OtherThread == IF ThreadOfEvent = "commit" THEN "issue" ELSE "commit"

\* C23: for a push event the comment is created or updated among the
\* comments of the commit, for a pull-request event among the comments of
\* the pull request, and the listing that looks up the earlier comment is
\* of that same thread; the other thread is left alone.
C23_CommentKindMatchesEvent ==
    (context.eventName = "push" \/ isPullRequestType(context.eventName)) =>
        /\ \A i \in UpsertRequests : trace[i].arg = <<ThreadOfEvent>>
        /\ \A j \in Positions("api", "list") :
               trace[j].arg = <<ThreadOfEvent>>
        /\ \A i \in UpsertRequests :
               \E j \in Positions("api", "list") : j < i
        /\ pc \in {"upsert", "upserting"} =>
               /\ CommentKind = ThreadOfEvent
               /\ ListedKind = ThreadOfEvent
               /\ found # 0 => comments[ThreadOfEvent][found].mine
        /\ comments[OtherThread] \in {t[OtherThread] : t \in Threads}

C23_Witness ==
    /\ isPullRequestType(context.eventName)
    /\ pc = "done"
    /\ \E i \in Positions("api", "update") : trace[i].arg = <<"issue">>
    /\ comments["issue"][2] = CommentBody(TheCommentContext)

-----------------------------------------------------------------------------
(* The rendered comment (SpecReport)                                       *)

\* C24: in the rendered comment a placeholder stands for an optional field
\* exactly when that field is absent: the name cell is N/A iff the name is
\* absent, the deployment cell is N/A iff deploymentUrl is absent and links
\* to deploymentUrl otherwise, the inspect cell is N/A iff inspectUrl is
\* absent, and the status is Pending while the urls are absent.
\* The deployment cell is rendered from inspectUrl, not from deploymentUrl.
C24_PlaceholderIffAbsent ==
    \A k \in {"commit", "issue"} : \A c \in 1..Len(comments[k]) :
        LET b == comments[k][c]
        IN  (b.mine /\ b.ctx.body = Null) =>
              /\ b.cells.name = <<"N/A">> <=> b.ctx.name = Null
              /\ b.cells.deployment = <<"N/A">> <=> ~Truthy(b.ctx.deploymentUrl)
              /\ Truthy(b.ctx.deploymentUrl) =>
                     b.cells.deployment = <<"<a href=">> \o b.ctx.deploymentUrl
              /\ b.cells.inspect = <<"N/A">> <=> ~Truthy(b.ctx.inspectUrl)
              /\ (~Truthy(b.ctx.deploymentUrl) /\ ~Truthy(b.ctx.inspectUrl))
                     => b.cells.status = <<"Pending">>

-----------------------------------------------------------------------------
(* The orchestrator that posts the notice of a skipped pull request        *)
(* (SpecNotice)                                                            *)

\* the body of the notice: this PR ... will not be deployed
ForkedNotice == <<"will not be deployed">>

\* run, up to its end: for a pull request of another owner createComment
\* with the notice and return; otherwise the same createComment is called
\* as the next statement, and the steps after it are not executed
NoticeComment ==
    /\ pc = "notice"
    /\ commentBody' = ForkedNotice
    /\ LET path == IF CrossFork THEN <<"return">> ELSE <<"next">>
       IN  IF CommentKind = "none"
           THEN /\ trace' = Append(trace, Event("group", "forked", path))
                /\ pc' = "done"
           ELSE IF ListedKind = "none"
           THEN /\ trace' = Append(trace, Event("group", "forked", path))
                /\ pc' = "upsert"
           ELSE /\ trace' = trace \o << Event("group", "forked", path),
                                        Event("api", "list", <<ListedKind>>) >>
                /\ pc' = "listing"
    /\ found' = 0
    /\ UNCHANGED <<vercelArgs, scope, projectName, context, ref, sha,
                   commitMessage, providedArgs, args, deploymentUrl, inspectUrl,
                   error, deploymentName, thrown, failed, comments, chunks,
                   githubToken, git>>

InitNotice ==
    /\ vercelArgs \in SampleArgs
    /\ scope = <<>>
    /\ projectName \in {<<>>, <<"proj">>}
    /\ context \in Contexts
    /\ comments \in Threads
    /\ githubToken = <<"ghs_token">>
    /\ pc = "notice"
    /\ ref = context.ref
    /\ sha = context.sha
    /\ commitMessage = <<>>
    /\ providedArgs = <<>>
    /\ args = <<>>
    /\ deploymentUrl = <<>>
    /\ inspectUrl = <<>>
    /\ error = <<>>
    /\ deploymentName = Null
    /\ thrown = NoError
    /\ failed = NoError
    /\ trace = <<>>
    /\ chunks = [out |-> <<>>, err |-> <<>>]
    /\ found = 0
    /\ git = [running |-> FALSE, out |-> <<>>]
    /\ commentBody = Null

NextNotice ==
    \/ NoticeComment
    \/ \E ok \in BOOLEAN : ListReturn(ok)
    \/ Upsert
    \/ \E ok \in BOOLEAN : UpsertReturn(ok)
    \/ Catch

SpecNotice == InitNotice /\ [][NextNotice]_vars

\* C25: the notice that the pull request will not be deployed is posted
\* only for an ineligible event: on a push event, or a pull-request event
\* of the repository's own owner, no comment with the notice is requested
\* or written.
\* run calls createComment with the notice on every event.
C25_NoticeOnlyWhenIneligible ==
    (context.eventName = "push"
        \/ (isPullRequestType(context.eventName) /\ ~context.forked)) =>
        /\ UpsertRequests # {} => commentBody # ForkedNotice
        /\ \A k \in {"commit", "issue"} : \A c \in 1..Len(comments[k]) :
               comments[k][c].mine => comments[k][c].ctx.body # ForkedNotice

-----------------------------------------------------------------------------
(* The commit of the deployment and of the comment (Spec)                  *)

\* C26: the commit sha handed to the tool as the githubCommitSha metadata
\* is the commit sha the run reports in its comment, for push and for
\* pull-request events.
\* deploy takes github.context.sha, the comment the head sha of the pull
\* request.
C26_SameShaDeployedAndReported ==
    (pc = "done" /\ UpsertRequests # {} /\ NotSuppressed("githubCommitSha")) =>
        \E i \in 1..Len(args) :
            args[i] = <<"githubCommitSha", "=">> \o TheCommentContext.commitSha

-----------------------------------------------------------------------------
(* The outcome of a run (SpecGitLog, Spec)                                 *)

\* the run has ended: run has returned, the wrapper has set the failed
\* state, or the process has ended on an error nothing caught
Terminal == pc \in {"done", "exit", "crashed"}

Skipped == pc = "done" /\ Happened("info", "skipped")

Succeeded == pc = "done" /\ ~Happened("info", "skipped") /\ failed = NoError

Failed == pc = "exit" /\ failed # NoError

SetFailedCalls == {i \in 1..Len(trace) : trace[i].kind = "setFailed"}

\* C27: every run ends in exactly one of the outcomes skipped, succeeded
\* and failed; the failed state is set at most once, by the wrapper, after
\* an error has escaped run, and nothing is executed after it.
\* An error that no await or try receives (the rejection of the git log
\* that is not awaited, a required input missing when the module's objects
\* are constructed) ends the process in none of the three outcomes.
C27_OneTerminalOutcome ==
    /\ Terminal =>
           Cardinality({o \in {"skipped", "succeeded", "failed"} :
                           \/ o = "skipped" /\ Skipped
                           \/ o = "succeeded" /\ Succeeded
                           \/ o = "failed" /\ Failed}) = 1
    /\ Cardinality(SetFailedCalls) <= 1
    /\ failed # NoError =>
           /\ pc = "exit"
           /\ failed = thrown
           /\ SetFailedCalls = {Len(trace)}
    /\ pc = "threw" => ENABLED Catch

====
